---- MODULE Spec2Model ----
(***************************************************************************)
(* A model of the cryptographic core of the plonky verifier:               *)
(*   src/src/bls12_377_scalar.rs  Montgomery arithmetic of the scalar field *)
(*   src/src/group.rs             G1 projective add, double, scalar mul     *)
(*   src/src/verifier.rs          verify_proof_circuit and its helpers      *)
(*                                                                         *)
(* TLC computes with 32-bit integers, so the arithmetic is instantiated at *)
(* a limb width of LimbBits = 4 bits instead of 64.  Every constant keeps  *)
(* the relation to the limb width that the source's constant has:          *)
(*   - an element is 4 limbs (a 16-bit container for the source's 256);    *)
(*   - ORDER is a prime r with 2^(4*LimbBits-4) < r < 2^(4*LimbBits-3)     *)
(*     (the source's r has 253 bits and exceeds 2^252);                    *)
(*   - R = W^4 mod r, R2 = R^2 mod r, R3 = R^3 mod r, MU = -r^-1 mod W;    *)
(*   - r - 1 = 2^7 * 57, so TWO_ADICITY is 7 (the source's is 47);         *)
(*   - the curve is y^2 = x^3 + 1 over a prime field Fq whose point group  *)
(*     has order 6 * r, so the scalar field is the field of a prime-order  *)
(*     subgroup with cofactor > 1, as for BLS12-377 G1.                    *)
(* The algorithms are transcribed from the source line by line; only the   *)
(* numbers are smaller.                                                    *)
(***************************************************************************)
EXTENDS Integers, Sequences, FiniteSets, TLC

VARIABLES
    \* ---- scalar-field machine (bls12_377_scalar.rs)
    fx,      \* the current Bls12377Scalar: its limbs, a function 0..3 -> 0..W-1
    fop,     \* the operation that produced fx
    farg1,   \* limbs of the first operand of that operation
    farg2,   \* limbs of its second operand
    fa,      \* the integer in [0, r) the first operand stands for
    fb,      \* the integer in [0, r) the second operand stands for
    fval,    \* the integer in [0, r) that fx is meant to stand for
    fn,      \* number of operations applied so far
    \* ---- G1 machine (group.rs)
    gp,      \* the current G1ProjectivePoint, a record [x, y, z] of Fq elements
    gop,     \* the operation that produced gp
    garg1,   \* the first operand of that operation (self, or rhs of the scalar mul)
    garg2,   \* the second operand of an add
    gscalar, \* the limbs of the scalar of a scalar multiplication
    gn,      \* number of operations applied so far
    \* ---- verify_proof_circuit (verifier.rs)
    proof,          \* the Proof handed to the verifier
    public_inputs,  \* the public_inputs slice handed to the verifier
    degree,         \* circuit.degree()
    ipa_holds,      \* whether the final IPA relation holds for this proof
    pc,             \* the statement verify_proof_circuit is about to run
    outcome,        \* "running", "Ok(true)", "Ok(false)" or "panic"
    panic_at,       \* the expression that panicked, "" if none has
    steps,          \* the steps executed so far, in order
    transcript,     \* the Challenger's events so far, in order
    challs,         \* the ProofChallenge, once derived
    quotient        \* the outcome of the quotient comparison, once made

fvars == <<fx, fop, farg1, farg2, fa, fb, fval, fn>>
gvars == <<gp, gop, garg1, garg2, gscalar, gn>>
inputs == <<proof, public_inputs, degree, ipa_holds>>
vvars == <<inputs, pc, outcome, panic_at, steps, transcript, challs, quotient>>
vars == <<fvars, gvars, vvars>>

(***************************************************************************)
(* Evaluation.  TLC passes operator arguments and LET definitions          *)
(* unevaluated and may compute them again at every use.  Eval(v, F) is     *)
(* F(v) with v computed once: a bound variable holds a value.              *)
(*                                                                         *)
(* Loops.  For(Step, s, k, n) is the value of s after                      *)
(*     for j in k..n-1 { s = Step(s, j) }                                  *)
(***************************************************************************)
Eval(v, F(_)) == CHOOSE r \in {F(t) : t \in {v}} : TRUE

RECURSIVE For(_, _, _, _)
For(Step(_, _), s, k, n) ==
    IF k >= n THEN s
    ELSE Eval(Step(s, k), LAMBDA t : For(Step, t, k + 1, n))

(***************************************************************************)
(* Limbs                                                                   *)
(***************************************************************************)
LimbBits == 4
W == 2 ^ LimbBits
W4 == W * W * W * W

\* A 4-limb little-endian array holding the integer n.
Limbs(n) == Eval(n, LAMBDA v : [i \in 0..3 |-> (v \div (W ^ i)) % W])

\* The integer a 4-limb little-endian array holds.
ToInt(a) == Eval(a, LAMBDA v : v[0] + W * v[1] + W * W * v[2] + W * W * W * v[3])

\* The arrays a [u64; 4] can hold.
LimbArrays == [0..3 -> 0..(W - 1)]

cmp_4_4(a, b) ==
    Eval(ToInt(a) - ToInt(b),
         LAMBDA d : IF d < 0 THEN "Less" ELSE IF d = 0 THEN "Equal" ELSE "Greater")

\* a - b on 4 limbs, wrapping at the container's width.
sub_4_4(a, b) == Limbs((W4 + ToInt(a) - ToInt(b)) % W4)

\* a + b on 4 limbs; the caller guarantees the sum fits, a sum that does not is cut.
add_4_4_no_overflow(a, b) == Limbs((ToInt(a) + ToInt(b)) % W4)

(***************************************************************************)
(* Constants of Bls12377Scalar                                             *)
(***************************************************************************)
ORDER == (0 :> 1 @@ 1 :> 8 @@ 2 :> 12 @@ 3 :> 1)
R == (0 :> 8 @@ 1 :> 15 @@ 2 :> 11 @@ 3 :> 1)
R2 == (0 :> 15 @@ 1 :> 4 @@ 2 :> 0 @@ 3 :> 1)
R3 == (0 :> 8 @@ 1 :> 8 @@ 2 :> 1 @@ 3 :> 1)
MU == 15
ZERO == (0 :> 0 @@ 1 :> 0 @@ 2 :> 0 @@ 3 :> 0)
ONE == (0 :> 8 @@ 1 :> 15 @@ 2 :> 11 @@ 3 :> 1)
TWO == (0 :> 15 @@ 1 :> 6 @@ 2 :> 11 @@ 3 :> 1)
THREE == (0 :> 6 @@ 1 :> 14 @@ 2 :> 10 @@ 3 :> 1)

\* The order r as an integer.
OrderInt == ToInt(ORDER)

(***************************************************************************)
(* montgomery_multiply: interleaved Montgomery multiplication on a 5-limb  *)
(* accumulator c whose least significant digit rotates with i.             *)
(***************************************************************************)
\* One inner loop `for j in 0..4`: c += m * v, starting at position i; the
\* state is the accumulator and the carry.  `result` is a u128: `wide` records
\* a row sum that does not fit its width.
MulAddRow(c, i, m, v) ==
    LET Step(s, j) ==
            Eval(s.c[(i + j) % 5] + m * v[j] + s.carry, LAMBDA result :
                [c |-> [s.c EXCEPT ![(i + j) % 5] = result % W],
                 carry |-> (result % (W * W)) \div W,
                 wide |-> s.wide \/ result >= W * W])
    IN For(Step, [c |-> c, carry |-> 0, wide |-> FALSE], 0, 4)

\* `c[(i + 4) % 5] += carry` does not fit the limb.
CarryOverflows(s, i) == s.c[(i + 4) % 5] + s.carry >= W

\* `c[(i + 4) % 5] += carry`.
AddCarry(s, i) == [s.c EXCEPT ![(i + 4) % 5] = (@ + s.carry) % W]

\* Faulty variant: q is taken from c[i] as it was before a[i] b was added.
MontRound_stale_q(c, i, a, b) ==
    Eval(MulAddRow(c, i, a[i], b), LAMBDA s1 :
    Eval(AddCarry(s1, i), LAMBDA c1 :
    Eval(MulAddRow(c1, i, (MU * c[i]) % W, ORDER), LAMBDA s2 :
    Eval(AddCarry(s2, i), LAMBDA c2 :
        [c |-> c2,
         debug_assert |-> c2[i] = 0,
         overflow |-> s1.wide \/ s2.wide \/ CarryOverflows(s1, i) \/ CarryOverflows(s2, i)]))))

\* One iteration of the outer loop `for i in 0..4`: add a[i] b to c, then
\* q = MU c[i], then add q N to c, then `debug_assert_eq!(c[i], 0)`.  The
\* result is the accumulator, whether the assertion holds, and whether a row
\* sum or a carry addition overflowed.
MontRound(c, i, a, b) ==
    Eval(MulAddRow(c, i, a[i], b), LAMBDA s1 :
    Eval(AddCarry(s1, i), LAMBDA c1 :
    Eval(MulAddRow(c1, i, (MU * c1[i]) % W, ORDER), LAMBDA s2 :
    Eval(AddCarry(s2, i), LAMBDA c2 :
        [c |-> c2,
         debug_assert |-> c2[i] = 0,
         overflow |-> s1.wide \/ s2.wide \/ CarryOverflows(s1, i) \/ CarryOverflows(s2, i)]))))

\* The four outer iterations `for i in 0..4`.
MontLoop(a, b) ==
    For(LAMBDA s, i :
            Eval(MontRound(s.c, i, a, b), LAMBDA t :
                [c |-> t.c,
                 debug_assert |-> s.debug_assert /\ t.debug_assert,
                 overflow |-> s.overflow \/ t.overflow,
                 carried |-> s.carried \/ t.c[(i + 4) % 5] # 0]),
        [c |-> [k \in 0..4 |-> 0], debug_assert |-> TRUE, overflow |-> FALSE,
         carried |-> FALSE], 0, 4)

\* The four outer iterations, and `[c[4], c[0], c[1], c[2]]`.
MontAccumulate(a, b) ==
    Eval(<<a, b>>, LAMBDA ab :
    Eval(MontLoop(ab[1], ab[2]).c,
         LAMBDA c : (0 :> c[4] @@ 1 :> c[0] @@ 2 :> c[1] @@ 3 :> c[2])))

\* Faulty variant: the final conditional subtraction is left out.
montgomery_multiply_no_final_sub(a, b) == MontAccumulate(a, b)

montgomery_multiply(a, b) ==
    Eval(MontAccumulate(a, b), LAMBDA result :
        IF cmp_4_4(result, ORDER) # "Less" THEN sub_4_4(result, ORDER) ELSE result)

\* Faulty variant: the canonical value is multiplied by R instead of R^2.
from_canonical_by_R(c) == montgomery_multiply(c, R)

from_canonical(c) == montgomery_multiply(c, R2)

to_canonical(x) == montgomery_multiply(x, (0 :> 1 @@ 1 :> 0 @@ 2 :> 0 @@ 3 :> 0))

\* from_canonical_u64(n) is from_canonical([n, 0, 0, 0]).  A u64 fills one limb
\* of the source; at this limb width the u64 values 2^(TWO_ADICITY - n_power)
\* take two limbs, so the array is the limb array of the integer n (for n < W
\* it is [n, 0, 0, 0]).
from_canonical_u64(n) == from_canonical(Limbs(n))

(***************************************************************************)
(* The operators of Bls12377Scalar                                         *)
(***************************************************************************)
add(x, rhs) ==
    Eval(add_4_4_no_overflow(x, rhs), LAMBDA sum :
        IF cmp_4_4(sum, ORDER) = "Less" THEN sum ELSE sub_4_4(sum, ORDER))

neg(x) == Eval(x, LAMBDA v : IF v = ZERO THEN ZERO ELSE sub_4_4(ORDER, v))

sub(x, rhs) ==
    Eval(<<x, rhs>>, LAMBDA xr :
        IF cmp_4_4(xr[1], xr[2]) = "Less"
        THEN add_4_4_no_overflow(xr[1], neg(xr[2]))
        ELSE sub_4_4(xr[1], xr[2]))

mul(x, rhs) == montgomery_multiply(x, rhs)

square(x) == Eval(x, LAMBDA v : mul(v, v))

\* base^e mod m on integers, by squaring; every product stays below m * m.
RECURSIVE PowModLoop(_, _, _)
PowModLoop(base, e, m) ==
    IF e = 0 THEN 1 % m
    ELSE Eval(PowModLoop(base, e \div 2, m), LAMBDA h :
             IF e % 2 = 1 THEN (((h * h) % m) * base) % m ELSE (h * h) % m)

PowMod(base, e, m) == Eval(<<base % m, e>>, LAMBDA be : PowModLoop(be[1], be[2], m))

\* The inverse of the integer held by a, modulo the integer held by order.
nonzero_multiplicative_inverse_4(a, order) ==
    Limbs(PowMod(ToInt(a), ToInt(order) - 2, ToInt(order)))

\* Faulty variant: the raw inverse is multiplied by R2 instead of R3.
multiplicative_inverse_assuming_nonzero_by_R2(x) ==
    Eval(nonzero_multiplicative_inverse_4(x, ORDER), LAMBDA self_r_inv :
        montgomery_multiply(self_r_inv, R2))

multiplicative_inverse_assuming_nonzero(x) ==
    Eval(nonzero_multiplicative_inverse_4(x, ORDER), LAMBDA self_r_inv :
        montgomery_multiply(self_r_inv, R3))

\* Option<Self>: None for ZERO.
multiplicative_inverse(x) ==
    Eval(x, LAMBDA v :
        IF v = ZERO THEN [some |-> FALSE, v |-> ZERO]
        ELSE [some |-> TRUE, v |-> multiplicative_inverse_assuming_nonzero(v)])

\* Faulty variant: a missing inverse is taken for ZERO instead of panicking.
div_none_as_zero(x, rhs) ==
    Eval(multiplicative_inverse(rhs), LAMBDA inv :
        [panic |-> FALSE, v |-> mul(x, inv.v)])

\* Div: `self * rhs.multiplicative_inverse().expect("No inverse")`.
div(x, rhs) ==
    Eval(multiplicative_inverse(rhs), LAMBDA inv :
        IF inv.some THEN [panic |-> FALSE, v |-> mul(x, inv.v)]
        ELSE [panic |-> TRUE, v |-> x])

\* Bit j of a limb.
Bit(limb, j) == (limb \div (2 ^ j)) % 2

\* Faulty variant: the zero-indexed position of the highest set bit.
num_bits_zero_indexed(x) ==
    Eval(to_canonical(x), LAMBDA c :
        For(LAMBDA n, k : IF Bit(c[k \div LimbBits], k % LimbBits) # 0 THEN k ELSE n,
            0, 0, 4 * LimbBits))

num_bits(x) ==
    Eval(to_canonical(x), LAMBDA c :
        For(LAMBDA n, k : IF Bit(c[k \div LimbBits], k % LimbBits) # 0 THEN k + 1 ELSE n,
            0, 0, 4 * LimbBits))

\* The loop of exp returns product as soon as bit_index = power_bits; the
\* iterations from there on leave the state as it is.
ExpStep(s, bit_index, power_bits, pw) ==
    IF bit_index >= power_bits THEN s
    ELSE [product |-> IF Bit(pw[bit_index \div LimbBits], bit_index % LimbBits) # 0
                      THEN mul(s.product, s.current) ELSE s.product,
          current |-> square(s.current)]

exp(x, power) ==
    Eval(power, LAMBDA p :
    Eval(num_bits(p), LAMBDA power_bits :
    Eval(to_canonical(p), LAMBDA pw :
        For(LAMBDA s, bit_index : ExpStep(s, bit_index, power_bits, pw),
            [product |-> ONE, current |-> x], 0, 4 * LimbBits).product)))

\* TwoAdicField: r - 1 = 2^TWO_ADICITY * t with t odd; T is the Montgomery
\* image of t and GENERATOR that of an element whose power t has order
\* 2^TWO_ADICITY.
TWO_ADICITY == 7
T == (0 :> 1 @@ 1 :> 8 @@ 2 :> 10 @@ 3 :> 1)
GENERATOR == (0 :> 4 @@ 1 :> 13 @@ 2 :> 9 @@ 3 :> 1)

\* Faulty variant: `(1 << TWO_ADICITY) - n_power` in place of
\* `1 << (TWO_ADICITY - n_power)`.
primitive_root_of_unity_shift_first(n_power) ==
    IF n_power > TWO_ADICITY THEN [panic |-> TRUE, v |-> ZERO]
    ELSE Eval(exp(GENERATOR, T), LAMBDA base_root :
            [panic |-> FALSE,
             v |-> exp(base_root, from_canonical_u64(2 ^ TWO_ADICITY - n_power))])

\* primitive_root_of_unity: the assertion, then base_root^(2^(TWO_ADICITY - n_power)).
primitive_root_of_unity(n_power) ==
    IF n_power > TWO_ADICITY THEN [panic |-> TRUE, v |-> ZERO]
    ELSE Eval(exp(GENERATOR, T), LAMBDA base_root :
            [panic |-> FALSE,
             v |-> exp(base_root, from_canonical_u64(2 ^ (TWO_ADICITY - n_power)))])

\* Faulty variant: one bit too few is removed from the most significant limb.
rand_shift_3(l0, l1, l2, l3) == (0 :> l0 @@ 1 :> l1 @@ 2 :> l2 @@ 3 :> (l3 \div (2 ^ 3)))

\* rand: four limbs from the generator, then `limbs[3] >>= 4`.
rand(l0, l1, l2, l3) == (0 :> l0 @@ 1 :> l1 @@ 2 :> l2 @@ 3 :> (l3 \div (2 ^ 4)))

(***************************************************************************)
(* The base field Fq (Bls12Base): integers modulo the prime Q.             *)
(***************************************************************************)
Q == 43781

fq_add(a, b) == (a + b) % Q
fq_sub(a, b) == (Q + a - b) % Q
fq_neg(a) == (Q - a) % Q
fq_mul(a, b) == (a * b) % Q
\* `x * 2u64`: the product with a small integer.
fq_mul_u64(a, n) == (a * n) % Q
\* a / b for b # 0.
fq_div(a, b) == (a * PowMod(b, Q - 2, Q)) % Q

(***************************************************************************)
(* G1 (group.rs): points [x, y, z] in projective coordinates on            *)
(* y^2 = x^3 + B.                                                          *)
(***************************************************************************)
B == 1
G1_GENERATOR_X == 22854
G1_GENERATOR_Y == 21689

G1_ZERO == [x |-> 0, y |-> 0, z |-> 0]

is_zero(p) == p.z = 0

is_on_curve(x, y, z) ==
    IF z = 0 THEN TRUE
    ELSE LET ya == fq_div(y, z)
             xa == fq_div(x, z)
         IN fq_mul(ya, ya) = fq_add(fq_mul(fq_mul(xa, xa), xa), B)

\* `new` asserts is_on_curve: it is defined on the triples that pass.
new(x, y, z) == [x |-> x, y |-> y, z |-> z]

g1_add(p, rhs) ==
    IF is_zero(p) THEN rhs
    ELSE IF is_zero(rhs) THEN p
    ELSE IF p.x = fq_neg(rhs.x) THEN p
    ELSE LET y1z2 == fq_mul(p.y, rhs.z)
             x1z2 == fq_mul(p.x, rhs.z)
             z1z2 == fq_mul(p.z, rhs.z)
             u == fq_sub(fq_mul(rhs.y, p.z), y1z2)
             uu == fq_mul(u, u)
             v == fq_sub(fq_mul(rhs.x, p.z), x1z2)
             vv == fq_mul(v, v)
             vvv == fq_mul(v, vv)
             r == fq_mul(vv, x1z2)
             a == fq_sub(fq_sub(fq_mul(uu, z1z2), vvv), fq_mul_u64(r, 2))
             x3 == fq_mul(v, a)
             y3 == fq_sub(fq_mul(u, fq_sub(r, a)), fq_mul(vvv, y1z2))
             z3 == fq_mul(vvv, z1z2)
         IN [x |-> x3, y |-> y3, z |-> z3]

\* Faulty variant: w = 2 x^2 instead of 3 x^2.
double_w_factor_2(p) ==
    LET w == fq_mul_u64(fq_mul(p.x, p.x), 2)
        s == fq_mul(p.y, p.z)
        ss == fq_mul(s, s)
        sss == fq_mul(s, ss)
        r == fq_mul(p.y, s)
        b == fq_mul(p.x, r)
        h == fq_sub(fq_mul(w, w), fq_mul_u64(b, 8))
        x3 == fq_mul_u64(fq_mul(h, s), 2)
        y3 == fq_sub(fq_mul(w, fq_sub(fq_mul_u64(b, 4), h)), fq_mul_u64(fq_mul(r, r), 8))
        z3 == fq_mul_u64(sss, 8)
    IN [x |-> x3, y |-> y3, z |-> z3]

double(p) ==
    LET w == fq_mul_u64(fq_mul(p.x, p.x), 3)
        s == fq_mul(p.y, p.z)
        ss == fq_mul(s, s)
        sss == fq_mul(s, ss)
        r == fq_mul(p.y, s)
        b == fq_mul(p.x, r)
        h == fq_sub(fq_mul(w, w), fq_mul_u64(b, 8))
        x3 == fq_mul_u64(fq_mul(h, s), 2)
        y3 == fq_sub(fq_mul(w, fq_sub(fq_mul_u64(b, 4), h)), fq_mul_u64(fq_mul(r, r), 8))
        z3 == fq_mul_u64(sss, 8)
    IN [x |-> x3, y |-> y3, z |-> z3]

\* Mul<G1ProjectivePoint> for Bls12Scalar: double-and-add over `self.limbs`,
\* limbs low to high and bits 0 upward within each limb.
g1_mul(limbs, rhs) ==
    LET Step(s, k) ==
            [sum |-> IF Bit(limbs[k \div LimbBits], k % LimbBits) # 0
                     THEN g1_add(s.sum, s.g) ELSE s.sum,
             g |-> double(s.g)]
    IN For(Step, [sum |-> G1_ZERO, g |-> rhs], 0, 4 * LimbBits).sum

(***************************************************************************)
(* verifier.rs.  An AffinePoint is a name and the verdict of is_valid on   *)
(* it; a field element of an opening set is a limb array.                  *)
(***************************************************************************)
SECURITY_BITS == 128
NUM_WIRES == 2
NUM_ROUTED_WIRES == 2

is_valid(p) == p.valid

\* `is_valid_canonical_u64(&x.to_canonical_u64_vec())`: the element is in range.
is_valid_canonical(x) == ToInt(x) < OrderInt

\* OpeningSet::to_vec: constants, sigmas, wires, z, then the chunks of t.
to_vec(os) ==
    os.o_constants \o os.o_plonk_sigmas \o os.o_wires \o <<os.o_plonk_z>> \o os.o_plonk_t

all_opening_sets(pr) == pr.o_public_inputs \o <<pr.o_local, pr.o_right, pr.o_below>>

\* `seq.iter().all(P)`.
All(seq, P(_)) == \A k \in 1..Len(seq) : P(seq[k])

\* The assertions of check_proof_parameters in their order: the first one that
\* fails, "" if none does.
FirstFailedAssertion(pr) ==
    IF ~All(pr.c_wires, is_valid) THEN "c_wires"
    ELSE IF ~is_valid(pr.c_plonk_z) THEN "c_plonk_z"
    ELSE IF ~All(pr.c_plonk_t, is_valid) THEN "c_plonk_t"
    ELSE IF ~All(pr.halo_l, is_valid) THEN "halo_l"
    ELSE IF ~All(pr.halo_r, is_valid) THEN "halo_r"
    ELSE IF ~is_valid(pr.halo_g) THEN "halo_g"
    ELSE IF ~(\A k \in 1..Len(all_opening_sets(pr)) :
                All(to_vec(all_opening_sets(pr)[k]), is_valid_canonical))
         THEN "opening sets"
    ELSE IF Len(pr.halo_l) # Len(pr.halo_r) THEN "halo lengths"
    ELSE ""

\* Faulty variant: halo_l is checked twice and halo_r never.
check_proof_parameters_skips_halo_r(pr) ==
    /\ All(pr.c_wires, is_valid)
    /\ is_valid(pr.c_plonk_z)
    /\ All(pr.c_plonk_t, is_valid)
    /\ All(pr.halo_l, is_valid)
    /\ All(pr.halo_l, is_valid)
    /\ is_valid(pr.halo_g)
    /\ \A k \in 1..Len(all_opening_sets(pr)) :
           All(to_vec(all_opening_sets(pr)[k]), is_valid_canonical)
    /\ Len(pr.halo_l) = Len(pr.halo_r)

\* TRUE when check_proof_parameters returns, FALSE when it panics.
check_proof_parameters(pr) == FirstFailedAssertion(pr) = ""

\* Faulty variant: every input is compared with the wires of the first opening set.
verify_public_inputs_first_set(pi, pr) ==
    LET Step(st, i) ==
            IF st # "true" THEN st
            ELSE IF 0 >= Len(pr.o_public_inputs) THEN "panic"
            ELSE IF pi[i + 1] # pr.o_public_inputs[1].o_wires[(i % NUM_WIRES) + 1]
                 THEN "false"
            ELSE "true"
    IN For(Step, "true", 0, Len(pi))

\* verify_public_inputs: "true", "false", or "panic" when the index
\* i / NUM_WIRES is out of the bounds of o_public_inputs.  Rust's indices
\* start at 0, the sequences' at 1.
verify_public_inputs(pi, pr) ==
    LET Step(st, i) ==
            IF st # "true" THEN st
            ELSE IF i \div NUM_WIRES >= Len(pr.o_public_inputs) THEN "panic"
            ELSE IF pi[i + 1] #
                    pr.o_public_inputs[(i \div NUM_WIRES) + 1].o_wires[(i % NUM_WIRES) + 1]
                 THEN "false"
            ELSE "true"
    IN For(Step, "true", 0, Len(pi))

\* The names of the challenges in the order get_challenges converts them; the
\* i-th IPA challenge is <<"ipa", i>>.
ChallengeNames(pr) ==
    << <<"beta", 0>>, <<"gamma", 0>>, <<"alpha", 0>>, <<"zeta", 0>>,
       <<"v", 0>>, <<"u", 0>>, <<"x", 0>> >>
        \o [i \in 1..Len(pr.halo_l) |-> <<"ipa", i>>]

Ids(points) == [k \in 1..Len(points) |-> points[k].id]

\* Every element of every opening set, in the order get_challenges observes them.
RECURSIVE Flatten(_)
Flatten(sets) ==
    IF sets = <<>> THEN <<>> ELSE to_vec(Head(sets)) \o Flatten(Tail(sets))

\* Faulty variant: zeta is drawn before c_plonk_t is observed.
ChallengerEvents_zeta_early(pr) ==
    <<  <<"observe_affine_points", Ids(pr.c_wires)>>,
        <<"draw", << <<"beta", 0>>, <<"gamma", 0>> >> >>,
        <<"observe_affine_point", pr.c_plonk_z.id>>,
        <<"draw", << <<"alpha", 0>> >> >>,
        <<"draw", << <<"zeta", 0>> >> >>,
        <<"observe_affine_points", Ids(pr.c_plonk_t)>> >>
    \o [k \in 1..Len(Flatten(all_opening_sets(pr))) |->
            <<"observe_element", Flatten(all_opening_sets(pr))[k]>>]
    \o <<  <<"draw", << <<"v", 0>>, <<"u", 0>>, <<"x", 0>> >> >> >>
    \o [k \in 1..(2 * Len(pr.halo_l)) |->
            IF k % 2 = 1
            THEN <<"observe_affine_points",
                   <<pr.halo_l[(k + 1) \div 2].id, pr.halo_r[(k + 1) \div 2].id>>>>
            ELSE <<"draw", <<  <<"ipa", k \div 2>> >>>>]

\* The events of get_challenges on the Challenger, in program order: an
\* observation with what is observed, or a draw with the challenges it yields.
ChallengerEvents(pr) ==
    <<  <<"observe_affine_points", Ids(pr.c_wires)>>,
        <<"draw", << <<"beta", 0>>, <<"gamma", 0>> >> >>,
        <<"observe_affine_point", pr.c_plonk_z.id>>,
        <<"draw", << <<"alpha", 0>> >> >>,
        <<"observe_affine_points", Ids(pr.c_plonk_t)>>,
        <<"draw", << <<"zeta", 0>> >> >> >>
    \o [k \in 1..Len(Flatten(all_opening_sets(pr))) |->
            <<"observe_element", Flatten(all_opening_sets(pr))[k]>>]
    \o <<  <<"draw", << <<"v", 0>>, <<"u", 0>>, <<"x", 0>> >> >> >>
    \o [k \in 1..(2 * Len(pr.halo_l)) |->
            IF k % 2 = 1
            THEN <<"observe_affine_points",
                   <<pr.halo_l[(k + 1) \div 2].id, pr.halo_r[(k + 1) \div 2].id>>>>
            ELSE <<"draw", <<  <<"ipa", k \div 2>> >>>>]

\* The draw that yields the challenge `name`.
DrawOf(events, name) ==
    CHOOSE k \in 1..Len(events) :
        /\ events[k][1] = "draw"
        /\ \E m \in 1..Len(events[k][2]) : events[k][2][m] = name

\* reduce_with_powers(terms, alpha) = terms[0] + terms[1] alpha + terms[2] alpha^2 + ...
reduce_with_powers(terms, alpha) ==
    Eval(<<terms, alpha>>, LAMBDA ta :
        For(LAMBDA sum, k : add(mul(sum, ta[2]), ta[1][Len(ta[1]) - k]),
            ZERO, 0, Len(ta[1])))

\* get_subgroup_shift(i): a fixed multiplier per wire index, distinct per index.
get_subgroup_shift(i) == from_canonical_u64(i + 1)

exp_usize(x, power) == exp(x, from_canonical_u64(power))

\* One iteration of the loop `for i in 0..NUM_ROUTED_WIRES` (lines 73-85).
PermutationStep(fg, i, pr, ch) ==
    LET k_i == get_subgroup_shift(i)
        s_id == mul(k_i, ch.zeta)
        beta_s_id == mul(ch.beta, s_id)
        beta_s_sigma == mul(ch.beta, pr.o_local.o_plonk_sigmas[i + 1])
        f_prime_part == add(add(pr.o_local.o_wires[i + 1], beta_s_id), ch.gamma)
        g_prime_part == add(add(pr.o_local.o_wires[i + 1], beta_s_sigma), ch.gamma)
    IN [f_prime |-> mul(fg.f_prime, f_prime_part),
        g_prime |-> mul(fg.g_prime, g_prime_part)]

\* Lines 57-105 of verify_proof_circuit: the quotient check.  The result is
\* "No inverse" when a division panics, else "equal" or "differ".
QuotientCheck(pr, ch, d, constraint_terms) ==
    Eval(exp_usize(ch.zeta, d), LAMBDA zeta_power_d :
    Eval(sub(zeta_power_d, ONE), LAMBDA z_of_zeta :
    Eval(div(z_of_zeta, mul(from_canonical_u64(d), sub(ch.zeta, ONE))),
         LAMBDA lagrange_1_eval :
    Eval(For(LAMBDA fg, i : PermutationStep(fg, i, pr, ch),
             [f_prime |-> ONE, g_prime |-> ONE], 0, NUM_ROUTED_WIRES), LAMBDA fg :
    LET z_x == pr.o_local.o_plonk_z
        z_gx == pr.o_right.o_plonk_z
        vanishing_z_1_term == mul(lagrange_1_eval.v, sub(z_x, ONE))
        vanishing_v_shift_term == sub(mul(fg.f_prime, z_x), mul(fg.g_prime, z_gx))
        vanishing_terms ==
            <<vanishing_z_1_term>> \o <<vanishing_v_shift_term>> \o constraint_terms
        purported_t_opening == reduce_with_powers(pr.o_local.o_plonk_t, zeta_power_d)
    IN IF lagrange_1_eval.panic THEN "No inverse"
       ELSE Eval(div(reduce_with_powers(vanishing_terms, ch.alpha), z_of_zeta),
                 LAMBDA computed_t_opening :
                IF computed_t_opening.panic THEN "No inverse"
                ELSE IF computed_t_opening.v # purported_t_opening THEN "differ"
                ELSE "equal")))))

(***************************************************************************)
(* Each machine below runs alone; the variables of the others stay idle.   *)
(***************************************************************************)
FieldIdle ==
    /\ fx = ZERO
    /\ fop = "idle"
    /\ farg1 = ZERO
    /\ farg2 = ZERO
    /\ fa = 0
    /\ fb = 0
    /\ fval = 0
    /\ fn = 0

GroupIdle ==
    /\ gp = [x |-> 0, y |-> 0, z |-> 0]
    /\ gop = "idle"
    /\ garg1 = [x |-> 0, y |-> 0, z |-> 0]
    /\ garg2 = [x |-> 0, y |-> 0, z |-> 0]
    /\ gscalar = ZERO
    /\ gn = 0

NoChallenges ==
    [beta |-> ZERO, gamma |-> ZERO, alpha |-> ZERO, zeta |-> ZERO,
     v |-> ZERO, u |-> ZERO, x |-> ZERO, ipa_challenges |-> <<>>]

VerifierIdle ==
    /\ proof = <<>>
    /\ public_inputs = <<>>
    /\ degree = 0
    /\ ipa_holds = FALSE
    /\ pc = "idle"
    /\ outcome = "idle"
    /\ panic_at = ""
    /\ steps = <<>>
    /\ transcript = <<>>
    /\ challs = NoChallenges
    /\ quotient = "none"

(***************************************************************************)
(* The scalar-field machine: a chain of operations on one element.         *)
(***************************************************************************)
MaxFieldOps == 2

\* Canonical integers the operands are built from.  The product of the images
\* of 200 and 200, and the image of 213, need the final subtraction of
\* montgomery_multiply.
CanonInputs == {0, 1, 200, 213, OrderInt - 1}
\* Exponents, as canonical integers.
ExpInputs == {0, 1, 3, OrderInt - 1}
\* Limb arrays the generator hands to rand, the largest one among them.
RandDraws == {<<0, 0, 0, 0>>, <<1, 8, 12, W - 1>>, <<W - 1, W - 1, W - 1, W - 1>>}

\* The integer in [0, r) a Montgomery image stands for: limbs * R^-1 mod r.
RInt == W4 % OrderInt
RInvInt == PowMod(RInt, OrderInt - 2, OrderInt)
RefValue(x) == ((ToInt(x) % OrderInt) * RInvInt) % OrderInt

FieldStep(op, res, a1, a2, va, vb, val) ==
    /\ UNCHANGED <<gvars, vvars>>
    /\ fn < MaxFieldOps
    /\ fop \notin {"panic", "assert"}
    /\ fx' = res
    /\ fop' = op
    /\ farg1' = a1
    /\ farg2' = a2
    /\ fa' = va
    /\ fb' = vb
    /\ fval' = val
    /\ fn' = fn + 1

FieldInit ==
    /\ \E c \in CanonInputs :
          /\ fx = from_canonical(Limbs(c))
          /\ farg1 = Limbs(c)
          /\ fa = c
          /\ fval = c
    /\ fop = "from_canonical"
    /\ farg2 = ZERO
    /\ fb = 0
    /\ fn = 0
    /\ GroupIdle
    /\ VerifierIdle

FFromCanonical ==
    \E c \in CanonInputs :
        FieldStep("from_canonical", from_canonical(Limbs(c)), Limbs(c), ZERO, c, 0, c)

FAdd ==
    \E c \in CanonInputs :
        LET y == from_canonical(Limbs(c))
        IN FieldStep("add", add(fx, y), fx, y, fval, c, (fval + c) % OrderInt)

FSub ==
    \E c \in CanonInputs :
        LET y == from_canonical(Limbs(c))
        IN FieldStep("sub", sub(fx, y), fx, y, fval, c, (OrderInt + fval - c) % OrderInt)

FNeg == FieldStep("neg", neg(fx), fx, ZERO, fval, 0, (OrderInt - fval) % OrderInt)

FMul ==
    \E c \in CanonInputs :
        LET y == from_canonical(Limbs(c))
        IN FieldStep("mul", mul(fx, y), fx, y, fval, c, (fval * c) % OrderInt)

\* multiplicative_inverse: Some(b) replaces the element, None leaves it.
FInverse ==
    \E inv \in {multiplicative_inverse(fx)} :
        IF inv.some
        THEN FieldStep("inverse", inv.v, fx, ZERO, fval, 0,
                       PowMod(fval, OrderInt - 2, OrderInt))
        ELSE FieldStep("inverse_none", fx, fx, ZERO, fval, 0, fval)

FDiv ==
    \E c \in CanonInputs :
        LET y == from_canonical(Limbs(c))
            d == div(fx, y)
        IN IF d.panic
           THEN FieldStep("panic", fx, fx, y, fval, c, fval)
           ELSE FieldStep("div", d.v, fx, y, fval, c,
                          (fval * PowMod(c, OrderInt - 2, OrderInt)) % OrderInt)

FExp ==
    \E c \in ExpInputs :
        LET p == from_canonical(Limbs(c))
        IN FieldStep("exp", exp(fx, p), fx, p, fval, c, PowMod(fval, c, OrderInt))

FRand ==
    \E l \in RandDraws :
        LET x == rand(l[1], l[2], l[3], l[4])
        IN FieldStep("rand", x, (0 :> l[1] @@ 1 :> l[2] @@ 2 :> l[3] @@ 3 :> l[4]), ZERO,
                     0, 0, RefValue(x))

\* primitive_root_of_unity(n_power); a failed assertion ends the chain.
FRoot ==
    \E n_power \in 0..(TWO_ADICITY + 1) :
      \E root \in {primitive_root_of_unity(n_power)} :
        IF root.panic
        THEN FieldStep("assert", fx, ZERO, ZERO, 0, n_power, fval)
        ELSE FieldStep("root", root.v, ZERO, ZERO, 0, n_power, RefValue(root.v))

FieldNext ==
    \/ FFromCanonical
    \/ FAdd
    \/ FSub
    \/ FNeg
    \/ FMul
    \/ FInverse
    \/ FDiv
    \/ FExp
    \/ FRand
    \/ FRoot

FieldSpec == FieldInit /\ [][FieldNext]_vars

(***************************************************************************)
(* The G1 machine: a chain of add, double and scalar multiplication.       *)
(***************************************************************************)
MaxGroupOps == 2

\* -P, the inverse of P.
NegPoint(p) == [x |-> p.x, y |-> fq_neg(p.y), z |-> p.z]

\* Two triples that denote the same group element.
SameElement(p, q) ==
    IF p.z = 0 \/ q.z = 0 THEN p.z = 0 /\ q.z = 0
    ELSE /\ fq_mul(p.x, q.z) = fq_mul(q.x, p.z)
         /\ fq_mul(p.y, q.z) = fq_mul(q.y, p.z)

\* Points handed to `new`: the generator of the subgroup of order r, the
\* generator scaled to z = 2, a point with x = 0, the point of order two,
\* a triple with z = 0 that is not ZERO, and the point at infinity.
StartPoints ==
    { new(G1_GENERATOR_X, G1_GENERATOR_Y, 1),
      new(fq_mul_u64(G1_GENERATOR_X, 2), fq_mul_u64(G1_GENERATOR_Y, 2), 2),
      new(0, 1, 1),
      new(Q - 1, 0, 1),
      new(3, 5, 0),
      G1_ZERO }

\* Canonical integers the scalars are built from.
ScalarInputs == {0, 1, 2, 5}

GroupStep(op, res, a1, a2, sc) ==
    /\ UNCHANGED <<fvars, vvars>>
    /\ gn < MaxGroupOps
    /\ gp' = res
    /\ gop' = op
    /\ garg1' = a1
    /\ garg2' = a2
    /\ gscalar' = sc
    /\ gn' = gn + 1

GroupInit ==
    /\ FieldIdle
    /\ VerifierIdle
    /\ gp \in StartPoints
    /\ is_on_curve(gp.x, gp.y, gp.z)
    /\ gop = "new"
    /\ garg1 = G1_ZERO
    /\ garg2 = G1_ZERO
    /\ gscalar = ZERO
    /\ gn = 0

GAdd ==
    \E rhs \in StartPoints \cup {gp, NegPoint(gp)} :
        GroupStep("add", g1_add(gp, rhs), gp, rhs, ZERO)

GDouble == GroupStep("double", double(gp), gp, G1_ZERO, ZERO)

GMul ==
    \E c \in ScalarInputs :
        LET sc == from_canonical(Limbs(c))
        IN GroupStep("mul", g1_mul(sc, gp), gp, G1_ZERO, sc)

GroupNext ==
    \/ GAdd
    \/ GDouble
    \/ GMul

GroupSpec == GroupInit /\ [][GroupNext]_vars

(***************************************************************************)
(* The verifier machine: one call of verify_proof_circuit.                 *)
(***************************************************************************)
MaxHalo == 1
MaxPublicInputs == 3

\* What may be wrong with the parameters of a proof: one point that fails
\* is_valid, or one element of an opening set that is out of range.
Defects ==
    {"none", "c_wires", "c_plonk_z", "c_plonk_t", "halo_l", "halo_r", "halo_g",
     "o_public_inputs", "o_local", "o_right", "o_below"}

\* Values of the public inputs and of the wires of the public-input gates.
PublicValues == {from_canonical_u64(9), from_canonical_u64(10)}

\* A limb array that is out of range: r itself.
OutOfRange == ORDER

Point(name, i, defect) == [id |-> <<name, i>>, valid |-> defect # name]

\* The points of a vector; a defect of the vector sits in its last point.
Points(name, n, defect) ==
    [i \in 1..n |-> [id |-> <<name, i>>, valid |-> ~(defect = name /\ i = n)]]

\* An opening set with the given wires, z and first chunk of t; a defect of
\* the set sits in its constant.
OpeningSet(name, wires, z, t0, defect) ==
    [o_constants |-> <<IF defect = name THEN OutOfRange ELSE ZERO>>,
     o_plonk_sigmas |-> [i \in 1..NUM_ROUTED_WIRES |-> ONE],
     o_wires |-> wires,
     o_plonk_z |-> z,
     o_plonk_t |-> <<t0, ZERO>>]

\* The opening sets of the public-input gates: none, one row of wires, or two.
PublicInputRows ==
    { <<>>,
      << <<from_canonical_u64(10), from_canonical_u64(9)>> >>,
      << <<from_canonical_u64(10), from_canonical_u64(9)>>,
         <<from_canonical_u64(9), from_canonical_u64(9)>> >> }

MakeProof(defect, nl, nr, rows, t0) ==
    [c_wires |-> Points("c_wires", NUM_WIRES, defect),
     c_plonk_z |-> Point("c_plonk_z", 1, defect),
     c_plonk_t |-> Points("c_plonk_t", 2, defect),
     o_public_inputs |->
        [k \in 1..Len(rows) |->
            OpeningSet("o_public_inputs", rows[k], ONE, ZERO,
                       IF k = Len(rows) THEN defect ELSE "none")],
     o_local |-> OpeningSet("o_local", [i \in 1..NUM_WIRES |-> THREE], ONE, t0, defect),
     o_right |-> OpeningSet("o_right", [i \in 1..NUM_WIRES |-> ZERO], ONE, ZERO, defect),
     o_below |-> OpeningSet("o_below", [i \in 1..NUM_WIRES |-> ZERO], ONE, ZERO, defect),
     halo_l |-> Points("halo_l", nl, defect),
     halo_r |-> Points("halo_r", nr, defect),
     halo_g |-> Point("halo_g", 1, defect)]

\* Sequences over S of length at most n.
SeqsUpTo(S, n) == UNION {[1..k -> S] : k \in 0..n}

\* The degrees of the circuits: powers of two.
Degrees == {4}

\* The values the Challenger's challenges take: zeta is 1, a primitive
\* fourth root of unity, or 3.
RootOfUnity4 == (0 :> 10 @@ 1 :> 5 @@ 2 :> 8 @@ 3 :> 0)
ZetaValues == {ONE, RootOfUnity4, THREE}
BetaValues == {ZERO, TWO}
AlphaValues == {ONE, TWO}
\* The vectors evaluate_all_constraints returns.
ConstraintTerms == {<<ZERO>>, <<ONE>>}

VerifierInit ==
    /\ FieldIdle
    /\ GroupIdle
    /\ \E defect \in Defects, nl \in 0..MaxHalo, nr \in 0..MaxHalo,
          rows \in PublicInputRows, t0 \in {ZERO, ONE} :
            proof = MakeProof(defect, nl, nr, rows, t0)
    /\ public_inputs \in SeqsUpTo(PublicValues, MaxPublicInputs)
    /\ degree \in Degrees
    /\ ipa_holds \in BOOLEAN
    /\ pc = "check_proof_parameters"
    /\ outcome = "running"
    /\ panic_at = ""
    /\ steps = <<>>
    /\ transcript = <<>>
    /\ challs = NoChallenges
    /\ quotient = "none"

Panic(what) ==
    /\ pc' = "done"
    /\ outcome' = "panic"
    /\ panic_at' = what

Return(value) ==
    /\ pc' = "done"
    /\ outcome' = value
    /\ panic_at' = panic_at

Goto(next) ==
    /\ pc' = next
    /\ outcome' = outcome
    /\ panic_at' = panic_at

\* Line 37: check_proof_parameters(proof).
CheckProofParameters ==
    /\ pc = "check_proof_parameters"
    /\ steps' = Append(steps, "check_proof_parameters")
    /\ IF check_proof_parameters(proof)
       THEN Goto("verify_public_inputs")
       ELSE Panic("assert")
    /\ UNCHANGED <<fvars, gvars, inputs, transcript, challs, quotient>>

\* Lines 39-43: the public inputs.
VerifyPublicInputs ==
    /\ pc = "verify_public_inputs"
    /\ steps' = Append(steps, "verify_public_inputs")
    /\ \E res \in {verify_public_inputs(public_inputs, proof)} :
          IF res = "panic" THEN Panic("index out of bounds")
          ELSE IF res = "false" THEN Return("Ok(false)")
          ELSE Goto("get_challenges")
    /\ UNCHANGED <<fvars, gvars, inputs, transcript, challs, quotient>>

\* Line 46: Challenger::new, then get_challenges.  Each challenge is converted
\* with try_convert_b2s(..).expect("Improbable"): `failing` is the first
\* challenge whose conversion fails, 0 if none does.  Each element observed
\* is converted with try_convert_s2b(..).expect("Improbable"): `unfit` is the
\* first element whose conversion fails, 0 if none does.
GetChallenges ==
    /\ pc = "get_challenges"
    /\ steps' = steps \o <<"Challenger::new", "get_challenges">>
    /\ \E failing \in 0..Len(ChallengeNames(proof)), events \in {ChallengerEvents(proof)},
          unfit \in 0..Len(Flatten(all_opening_sets(proof))) :
             IF unfit # 0 /\ (failing = 0 \/ failing > 4)
             THEN /\ transcript' = SubSeq(events, 1, 6 + unfit - 1)
                  /\ challs' = challs
                  /\ Panic("Improbable")
             ELSE IF failing # 0
             THEN /\ transcript' =
                        SubSeq(events, 1, DrawOf(events, ChallengeNames(proof)[failing]))
                  /\ challs' = challs
                  /\ Panic("Improbable")
             ELSE /\ transcript' = events
                  /\ \E zeta \in ZetaValues, beta \in BetaValues, alpha \in AlphaValues :
                        challs' = [beta |-> beta, gamma |-> ONE, alpha |-> alpha,
                                   zeta |-> zeta, v |-> TWO, u |-> THREE, x |-> TWO,
                                   ipa_challenges |-> [i \in 1..Len(proof.halo_l) |-> THREE]]
                  /\ Goto("quotient")
    /\ UNCHANGED <<fvars, gvars, inputs, quotient>>

\* Lines 48-105: evaluate_all_constraints, the vanishing terms and the
\* comparison of the two openings of t.
CheckQuotient ==
    /\ pc = "quotient"
    /\ steps' = Append(steps, "quotient")
    /\ \E constraint_terms \in ConstraintTerms :
          \E res \in {QuotientCheck(proof, challs, degree, constraint_terms)} :
             /\ quotient' = res
             /\ IF res = "No inverse" THEN Panic("No inverse")
                ELSE IF res = "differ" THEN Return("Ok(false)")
                ELSE Goto("verify_ipa")
    /\ UNCHANGED <<fvars, gvars, inputs, transcript, challs>>

\* Lines 107-109: the call of verify_all_ipas is commented out and the
\* function ends in todo!().
VerifyIpa ==
    /\ pc = "verify_ipa"
    /\ steps' = Append(steps, "todo!()")
    /\ Panic("todo!()")
    /\ UNCHANGED <<fvars, gvars, inputs, transcript, challs, quotient>>

Next ==
    \/ CheckProofParameters
    \/ VerifyPublicInputs
    \/ GetChallenges
    \/ CheckQuotient
    \/ VerifyIpa

Spec == VerifierInit /\ [][Next]_vars

(***************************************************************************)
(* Properties of the scalar field                                          *)
(***************************************************************************)
\* C8: after any sequence of scalar-field operations on elements whose limbs
\* are below r, the limbs of the resulting element are strictly below r.
C8_LimbsBelowOrder == fx \in LimbArrays /\ ToInt(fx) < OrderInt

\* The underflow branch of sub, a + (-b), has produced the current element.
C8_Witness ==
    /\ fop = "sub"
    /\ cmp_4_4(farg1, farg2) = "Less"
    /\ farg2 # ZERO
    /\ fn = MaxFieldOps

\* C9: montgomery_multiply(x, y) is x * y * R^-1 mod r, reduced into [0, r);
\* hence to_canonical(from_canonical(a) * from_canonical(b)) = a * b mod r.
C9_MontgomeryProduct ==
    fop = "mul" =>
        /\ ToInt(fx) < OrderInt
        /\ (ToInt(fx) * RInt) % OrderInt = (ToInt(farg1) * ToInt(farg2)) % OrderInt
        /\ (farg1 = from_canonical(Limbs(fa)) /\ farg2 = from_canonical(Limbs(fb))
               => to_canonical(fx) = Limbs((fa * fb) % OrderInt))

\* A product whose integer product wraps around r and whose accumulator needs
\* the final conditional subtraction.
C9_Witness ==
    /\ fop = "mul"
    /\ farg1 = from_canonical(Limbs(fa))
    /\ farg2 = from_canonical(Limbs(fb))
    /\ fa * fb >= OrderInt
    /\ cmp_4_4(MontAccumulate(farg1, farg2), ORDER) # "Less"

\* C10: for c in [0, r), from_canonical(c) stores c * R mod r, and
\* to_canonical(from_canonical(c)) = c.
C10_CanonicalRoundTrip ==
    (fop = "from_canonical" /\ ToInt(farg1) < OrderInt) =>
        /\ ToInt(fx) = (ToInt(farg1) * RInt) % OrderInt
        /\ to_canonical(fx) = farg1

\* from_canonical has been applied, as an operation of the chain, to an
\* integer whose image needs the final subtraction.
C10_Witness ==
    /\ fop = "from_canonical"
    /\ farg1 # ZERO
    /\ cmp_4_4(MontAccumulate(farg1, R2), ORDER) # "Less"
    /\ fn >= 1
    /\ to_canonical(fx) = farg1

\* C11: multiplicative_inverse(a) is None if and only if a = ZERO; for a
\* nonzero a it returns b, an element with limbs below r, with a * b = ONE.
C11_InverseIsInverse ==
    /\ fop = "inverse_none" => farg1 = ZERO
    /\ fop = "inverse" =>
        /\ farg1 # ZERO
        /\ ToInt(fx) < OrderInt
        /\ mul(farg1, fx) = ONE
        /\ mul(fx, farg1) = ONE

\* The inverse of an element other than ZERO and ONE has been taken.
C11_Witness ==
    /\ fop = "inverse"
    /\ farg1 \notin {ZERO, ONE}
    /\ fx # farg1
    /\ mul(farg1, fx) = ONE

\* C12: exp(x, p) is x raised to the canonical integer of p: ONE for p = 0,
\* x for p = 1, x^(a+b) = x^a * x^b, and the early exit at bit index
\* num_bits(p) leaves no set bit of p unread.
C12_ExpIsPower ==
    fop = "exp" =>
        /\ fb = ToInt(to_canonical(farg2))
        /\ fx = from_canonical(Limbs(PowMod(RefValue(farg1), fb, OrderInt)))
        /\ (fb = 0 => fx = ONE)
        /\ (fb = 1 => fx = farg1)
        /\ \A a \in {0, 1, fb \div 2} :
              a <= fb =>
                fx = mul(exp(farg1, from_canonical(Limbs(a))),
                         exp(farg1, from_canonical(Limbs(fb - a))))
        /\ \A k \in 0..(4 * LimbBits - 1) :
              Bit(to_canonical(farg2)[k \div LimbBits], k % LimbBits) # 0
                => k < num_bits(farg2)
        /\ (fb = 0 => num_bits(farg2) = 0)

\* A base other than ZERO and ONE has been raised to r - 1, a power whose
\* bits reach into the most significant limb.
C12_Witness ==
    /\ fop = "exp"
    /\ fb = OrderInt - 1
    /\ farg1 \notin {ZERO, ONE}
    /\ num_bits(farg2) = 3 * LimbBits + 1
    /\ fx = ONE

\* C13: for 0 <= k <= TWO_ADICITY, primitive_root_of_unity(k) is
\* (GENERATOR^T)^(2^(TWO_ADICITY - k)), an element of order exactly 2^k:
\* rho^(2^k) = ONE, and for k >= 1 neither rho^(2^k - 1) nor rho^(2^(k-1))
\* is ONE; for k > TWO_ADICITY the call aborts.
C13_RootHasOrderTwoToK ==
    /\ fop = "assert" => fb > TWO_ADICITY
    /\ fop = "root" =>
        /\ fb <= TWO_ADICITY
        /\ ToInt(fx) < OrderInt
        /\ exp(fx, from_canonical_u64(2 ^ fb)) = ONE
        /\ PowMod(RefValue(fx), 2 ^ fb, OrderInt) = 1
        /\ fb >= 1 =>
            /\ exp(fx, from_canonical_u64(2 ^ fb - 1)) # ONE
            /\ exp(fx, from_canonical_u64(2 ^ (fb - 1))) # ONE
            /\ PowMod(RefValue(fx), 2 ^ (fb - 1), OrderInt) # 1

\* The root of the largest order, 2^TWO_ADICITY, has been computed.
C13_Witness ==
    /\ fop = "root"
    /\ fb = TWO_ADICITY
    /\ fx = exp(GENERATOR, T)
    /\ fx # ONE

\* The operands montgomery_multiply has just been called with: those of a
\* product, and the canonical limbs and R^2 of a conversion.
MontOperands ==
    IF fop = "mul" THEN {<<farg1, farg2>>}
    ELSE IF fop = "from_canonical" THEN {<<farg1, R2>>}
    ELSE {}

\* C16: in montgomery_multiply on operands below r, after each of the four
\* outer iterations i the limb c[i] is 0, so the debug assertion never fires,
\* and no row sum and no carry addition into c[(i + 4) % 5] overflows.
C16_NoOverflowAndAssertionHolds ==
    \A ab \in MontOperands :
        /\ cmp_4_4(ab[1], ORDER) = "Less"
        /\ cmp_4_4(ab[2], ORDER) = "Less"
        /\ \E s \in {MontLoop(ab[1], ab[2])} : s.debug_assert /\ ~s.overflow

\* A product whose rounds carry into the top limb, and whose accumulator
\* needs the final subtraction.
C16_Witness ==
    /\ fop = "mul"
    /\ farg1 # ZERO
    /\ farg2 # ZERO
    /\ MontLoop(farg1, farg2).carried
    /\ cmp_4_4(MontAccumulate(farg1, farg2), ORDER) # "Less"

(***************************************************************************)
(* Properties of the group G1                                              *)
(***************************************************************************)
\* C5: for two operands that are not the point at infinity and have
\* x1 = -x2, add returns the point at infinity (z = 0), never one of its
\* operands; in particular P + (-P) is the point at infinity.
C5_OppositeXGivesInfinity ==
    (/\ gop = "add"
     /\ ~is_zero(garg1)
     /\ ~is_zero(garg2)
     /\ garg1 # garg2
     /\ garg1.x = fq_neg(garg2.x)) =>
        /\ is_zero(gp)
        /\ gp # garg1
        /\ gp # garg2

\* C6: s * P is double-and-add over the canonical bits of s: 0 * P is the
\* point at infinity, 1 * P is P, and s * P is the element the canonical
\* integer of s selects.
C6_ScalarMulOverCanonicalBits ==
    gop = "mul" =>
        /\ (gscalar = ZERO => is_zero(gp))
        /\ (gscalar = ONE => SameElement(gp, garg1))
        /\ SameElement(gp, g1_mul(to_canonical(gscalar), garg1))

\* C7: for P with z # 0, P.double() is the same group element as P + P
\* computed by add.
C7_DoubleIsAddToItself ==
    (gop = "add" /\ garg1 = garg2 /\ garg1.z # 0) =>
        SameElement(gp, double(garg1))

\* C17: every point of a chain of add, double and scalar multiplication that
\* starts from a point accepted by `new`, or from the point at infinity, has
\* z = 0 or satisfies (y/z)^2 = (x/z)^3 + B; and the double of a point with
\* z = 0 has z = 0.
C17_PointsStayOnCurve ==
    /\ gp.z = 0 \/ is_on_curve(gp.x, gp.y, gp.z)
    /\ (gop = "double" /\ garg1.z = 0) => gp.z = 0

\* The second operation of a chain has added two different finite points by
\* the general formulas, and the sum is a finite point.
C17_Witness ==
    /\ gn = MaxGroupOps
    /\ gop = "add"
    /\ garg1.z # 0
    /\ garg2.z # 0
    /\ garg1.x # fq_neg(garg2.x)
    /\ gp.z # 0
    /\ ~SameElement(gp, garg1)
    /\ ~SameElement(gp, garg2)
    /\ is_on_curve(gp.x, gp.y, gp.z)

(***************************************************************************)
(* Properties of the verifier                                              *)
(***************************************************************************)
\* Every affine point of the proof, in the order check_proof_parameters
\* looks at them.
AllPoints(pr) ==
    pr.c_wires \o <<pr.c_plonk_z>> \o pr.c_plonk_t \o pr.halo_l \o pr.halo_r \o <<pr.halo_g>>

\* The proof is malformed: a point fails is_valid, an element of an opening
\* set is out of range, or halo_l and halo_r differ in length.
MalformedProof ==
    \/ \E k \in 1..Len(AllPoints(proof)) : ~AllPoints(proof)[k].valid
    \/ \E k \in 1..Len(Flatten(all_opening_sets(proof))) :
            ToInt(Flatten(all_opening_sets(proof))[k]) >= OrderInt
    \/ Len(proof.halo_l) # Len(proof.halo_r)

\* Some index i has public_inputs[i] # o_public_inputs[i / NUM_WIRES].o_wires[i % NUM_WIRES].
PublicInputMismatch ==
    \E i \in 0..(Len(public_inputs) - 1) :
        /\ i \div NUM_WIRES < Len(proof.o_public_inputs)
        /\ public_inputs[i + 1] #
              proof.o_public_inputs[(i \div NUM_WIRES) + 1].o_wires[(i % NUM_WIRES) + 1]

\* The elements of the opening sets: the public-input gates' sets in order,
\* then o_local, o_right and o_below.
OpeningElements ==
    Flatten(proof.o_public_inputs) \o to_vec(proof.o_local)
        \o to_vec(proof.o_right) \o to_vec(proof.o_below)

\* The k-th event of a complete transcript, as the order of C14 has it.
ExpectedEvent(k) ==
    LET n == Len(OpeningElements)
    IN IF k = 1 THEN <<"observe_affine_points", Ids(proof.c_wires)>>
       ELSE IF k = 2 THEN <<"draw", << <<"beta", 0>>, <<"gamma", 0>> >> >>
       ELSE IF k = 3 THEN <<"observe_affine_point", proof.c_plonk_z.id>>
       ELSE IF k = 4 THEN <<"draw", << <<"alpha", 0>> >> >>
       ELSE IF k = 5 THEN <<"observe_affine_points", Ids(proof.c_plonk_t)>>
       ELSE IF k = 6 THEN <<"draw", << <<"zeta", 0>> >> >>
       ELSE IF k <= 6 + n THEN <<"observe_element", OpeningElements[k - 6]>>
       ELSE IF k = 7 + n THEN <<"draw", << <<"v", 0>>, <<"u", 0>>, <<"x", 0>> >> >>
       ELSE IF (k - 7 - n) % 2 = 1
            THEN <<"observe_affine_points",
                   <<proof.halo_l[(k - 6 - n) \div 2].id, proof.halo_r[(k - 6 - n) \div 2].id>> >>
       ELSE <<"draw", << <<"ipa", (k - 7 - n) \div 2>> >> >>

\* get_challenges has returned.
ChallengesDerived == pc \in {"quotient", "verify_ipa"} \/ quotient # "none"

C15_ZeroDivisorIsFatal ==
    (ChallengesDerived /\ (challs.zeta = ONE \/ exp_usize(challs.zeta, degree) = ONE)) =>
        /\ pc \in {"quotient", "done"}
        /\ pc = "done" =>
            /\ outcome = "panic"
            /\ panic_at = "No inverse"
            /\ quotient = "No inverse"

\* The run has ended in the second division: zeta is not 1 and zeta^degree is.
C15_Witness ==
    /\ pc = "done"
    /\ challs.zeta = RootOfUnity4
    /\ challs.zeta # ONE
    /\ exp_usize(challs.zeta, degree) = ONE
    /\ panic_at = "No inverse"

\* C1: a proof that passes the parameter check, the public-input check and
\* the quotient check, and whose IPA relation holds, makes
\* verify_proof_circuit return Ok(true).
C1_ValidProofAccepted ==
    (/\ pc = "done"
     /\ ~MalformedProof
     /\ quotient = "equal"
     /\ ipa_holds) => outcome = "Ok(true)"

\* C2: for a proof that passes the parameter check, verify_proof_circuit
\* never panics, and a failed check makes it return Ok(false).
C2_FailedCheckReturnsFalse ==
    (pc = "done" /\ ~MalformedProof) =>
        /\ outcome # "panic"
        /\ (PublicInputMismatch \/ quotient = "differ" \/ ~ipa_holds
                => outcome = "Ok(false)")

\* C3: for a proof that passes the parameter check, a mismatch between a
\* public input and the wire it is compared with makes verify_proof_circuit
\* return Ok(false) at the public-input step: no Challenger is created, no
\* challenge is drawn and no later step runs.
C3_MismatchReturnsFalseEarly ==
    (~MalformedProof /\ PublicInputMismatch) =>
        /\ pc \in {"check_proof_parameters", "verify_public_inputs", "done"}
        /\ transcript = <<>>
        /\ challs = NoChallenges
        /\ quotient = "none"
        /\ (pc = "done" =>
                /\ outcome = "Ok(false)"
                /\ steps = <<"check_proof_parameters", "verify_public_inputs">>)

\* The mismatch sits in the second opening set and the verifier has returned.
C3_Witness ==
    /\ pc = "done"
    /\ outcome = "Ok(false)"
    /\ ~MalformedProof
    /\ Len(public_inputs) = 3
    /\ Len(proof.o_public_inputs) = 2
    /\ public_inputs[1] = proof.o_public_inputs[1].o_wires[1]
    /\ public_inputs[2] = proof.o_public_inputs[1].o_wires[2]
    /\ public_inputs[3] # proof.o_public_inputs[2].o_wires[1]
    /\ steps = <<"check_proof_parameters", "verify_public_inputs">>

====
